---- MODULE Spec2Model ----
(***************************************************************************)
(* Model of the LinkedIn profile scraper.                                  *)
(*                                                                         *)
(*   Spec     the Navigation Controller: one call of                       *)
(*            LinkedinProfileScraper.scrape_profile on a freshly           *)
(*            constructed instance, including LinkedinAuthenticator.login, *)
(*            the six section expansions and the company loop, with a      *)
(*            failure possible at every browser or file operation.         *)
(*   SpecAsm  the Profile Assembler: construction and scrape_profile of    *)
(*            LinkedInProfileScraper over bounded profile documents,       *)
(*            document mappings, session and legacy directories.           *)
(*   SpecFn   the stand-alone functions, each applied once to an input     *)
(*            drawn from a bounded set: extract_current_companies, the     *)
(*            six section extractors, extract_company_info and             *)
(*            process_about_file, and one run of the command line.         *)
(*   SpecAgain  the Navigation Controller called a second time on an       *)
(*            instance whose mapping holds documents of an earlier call.   *)
(***************************************************************************)
EXTENDS Integers, Sequences, FiniteSets, TLC

\* ---------------------------------------------------------------- bounds
\* Largest number of distinct current-company URLs a captured document holds.
MaxCompanies == 2

\* Largest number of profile-card blocks of a base profile document.
MaxBlocks == 2

\* Largest number of experience items of an experiences document.
MaxEntries == 2

\* Largest number of <dt> elements of a company page's definition list.
MaxItems == 2

\* ------------------------------------------------------ program constants
\* The order of the six _expand_and_capture_section calls.
Sections ==
  << "experiences", "skills", "education", "languages", "projects",
     "licenses_and_certifications" >>

NumSections == Len(Sections)

\* Length of each section's locator chain in section_selectors.
NumSelectors(s) ==
  CASE s = "experiences" -> 2
    [] s = "skills" -> 2
    [] s = "education" -> 2
    [] s = "languages" -> 3
    [] s = "projects" -> 3
    [] s = "licenses_and_certifications" -> 4

\* ------------------------------------------------------------------ state
VARIABLES
  debug_mode,     \* LinkedinProfileScraper.debug_mode
  html_content,   \* LinkedinProfileScraper.html_content: key -> document
  disk,           \* files under html_pages_dir: name -> document
  pc,             \* position of the scrape_profile call
  args,           \* locals of the call: email and password after the
                  \* environment fallback (present or not), scrape_companies
  browser,        \* "none" | "open" | "closed"
  context,        \* "none" | "open" | "closed"
  page,           \* what the page currently shows
  secIdx,         \* index into Sections of the current expansion attempt
  selIdx,         \* index into the current section's locator chain
  company_urls,   \* the enumerated candidate sequence of the company loop
  coIdx,          \* loop variable i of the company loop
  result,         \* "none" | "returned" | "raised"
  trace,          \* observations of the call (history, not program state)
  asm,            \* the Profile Assembler: its inputs and the assembled record
  call            \* one call of a stand-alone function: its input and result

ctlVars ==
  << debug_mode, html_content, disk, pc, args, browser, context, page,
     secIdx, selIdx, company_urls, coIdx, result, trace >>

\* The state outside the controller.
others == << asm, call >>

vars == << ctlVars, others >>

\* ---------------------------------------------------------------- helpers
Put(m, k, v) == [x \in DOMAIN m \cup {k} |-> IF x = k THEN v ELSE m[x]]

EmptyMap == [x \in {} |-> 0]

Has(m, k) == k \in DOMAIN m

Range(f) == {f[x] : x \in DOMAIN f}

\* f'{section}_expanded_html'
ExpandedKey(s) == s \o "_expanded_html"

\* f'company_{i}_main_html', f'company_{i}_about_html', f'company_{i}_html'
MainKey(i) == "company_" \o ToString(i) \o "_main_html"

AboutKey(i) == "company_" \o ToString(i) \o "_about_html"

BestKey(i) == "company_" \o ToString(i) \o "_html"

CompanyKeys(i) == {MainKey(i), AboutKey(i), BestKey(i)}

\* The candidate company URLs a page can list.
Urls == 1..MaxCompanies

\* What page.content() returns: the markup of the page shown, named by the
\* kind of page and the section or company it belongs to.
Doc(kind, ref) == [kind |-> kind, ref |-> ref]

\* enumerate(company_urls): the candidates are a Python set enumerated in
\* arbitrary order; a URL is named by its place in that enumeration.
Enumerate(n) == [k \in 1..n |-> k]

\* ------------------------------------------------- the call's observations
NoUrl == [checkpoint |-> FALSE, login |-> FALSE]

InitTrace ==
  [ loginCalled |-> FALSE,    \* LinkedinAuthenticator.login was entered
    submitted   |-> FALSE,    \* the login form was submitted and the URL read
    postUrl     |-> NoUrl,    \* page.url read after the submit
    loginFault  |-> FALSE,    \* a browser operation inside login failed
    loggedIn    |-> FALSE,    \* login returned (browser, context, page)
    profileNavs |-> 0,        \* page.goto(profile_url) calls
    attempted   |-> << >>,    \* sections whose expansion attempt has started
    secMatched  |-> FALSE,    \* current attempt: some locator became visible
    secWrites   |-> 0,        \* current attempt: stores of the expanded key
    secNavs     |-> 0,        \* current attempt: page.goto(href) calls
    source      |-> "",       \* key of the document given to the link extractor
    entered     |-> FALSE,    \* the company loop was entered
    visits      |-> [u \in Urls |-> 0],  \* page.goto(company_url) calls per URL
    failStep    |-> "" ]      \* the step whose exception left scrape_profile

\* ------------------------------------------------------------ construction
\* LinkedinProfileScraper.__init__: an empty mapping; in debug mode the
\* html_pages directory is created.
DirMark == Doc("dir", "")

\* No assembler has been constructed.
NoAssembler ==
  [ step |-> "none",
    soup |-> << >>,
    html_content_dict |-> EmptyMap,
    session_dir |-> [given |-> FALSE, files |-> EmptyMap],
    opened |-> {},
    profile |-> EmptyMap,
    head |-> [title |-> FALSE, h1 |-> FALSE, headline |-> FALSE, about |-> "absent"],
    companies |->
      [session |-> [exists |-> FALSE, listable |-> FALSE, files |-> << >>],
       legacy  |-> [exists |-> FALSE, listable |-> FALSE, files |-> << >>]],
    source |-> "",
    read |-> {} ]

\* No stand-alone function has been called.
NoCall == [fn |-> "none", done |-> FALSE]

InitController ==
  /\ asm = NoAssembler
  /\ debug_mode \in BOOLEAN
  /\ html_content = EmptyMap
  /\ disk = IF debug_mode THEN Put(EmptyMap, "html_pages", DirMark) ELSE EmptyMap
  /\ pc = "idle"
  /\ args = [email |-> FALSE, password |-> FALSE, scrape_companies |-> FALSE]
  /\ browser = "none"
  /\ context = "none"
  /\ page = "none"
  /\ secIdx = 0
  /\ selIdx = 0
  /\ company_urls = << >>
  /\ coIdx = 0
  /\ result = "none"
  /\ trace = InitTrace

Init == InitController /\ call = NoCall

\* Mutant: the document is written whatever the mode.
DebugWrite_Always(files, file, doc) == Put(files, file, doc)

\* "if self.debug_mode: with open(path, 'w') as f: f.write(html)"
DebugWrite(files, file, doc) ==
  IF debug_mode THEN Put(files, file, doc) ELSE files

\* --------------------------------------------------------- scrape_profile
\* "if not email: email = os.environ.get(...)": present after the fallback.
ResolveCredential(arg, env) == arg \/ env

\* Mutant: the check fires only when both credentials are absent.
CredentialsMissing_BothAbsent(e, p) == ~e /\ ~p

\* "if not email or not password" of scrape_profile.
CredentialsMissing(e, p) == ~e \/ ~p

\* "if not email or not password" of LinkedinAuthenticator.login.
LoginCredentialsMissing(e, p) == ~e \/ ~p

\* An exception leaves scrape_profile from step st.
Raise(st) ==
  /\ result' = "raised"
  /\ pc' = "done"
  /\ trace' = [trace EXCEPT !.failStep = st]

\* Lines 60-72: the caller enters scrape_profile(profile_url, email,
\* password, scrape_companies); each credential is given or not, in the
\* arguments and in the environment.  The locals email and password hold
\* the values after the fallback; absence of either raises ValueError.
Start ==
  /\ pc = "idle"
  /\ \E e, p, ee, ep, sc \in BOOLEAN :
       LET email == ResolveCredential(e, ee)
           password == ResolveCredential(p, ep) IN
       /\ args' = [email |-> email, password |-> password, scrape_companies |-> sc]
       /\ IF CredentialsMissing(email, password)
            THEN Raise("credentials")
            ELSE /\ pc' = "login"
                 /\ UNCHANGED << result, trace >>
  /\ UNCHANGED << others, debug_mode, html_content, disk, browser, context, page,
                  secIdx, selIdx, company_urls, coIdx >>

\* ------------------------------------------------ LinkedinAuthenticator.login
\* Mutant: only 'checkpoint' is looked for.
LoginChallenge_CheckpointOnly(url) == url.checkpoint

\* "if 'checkpoint' in current_url or 'login' in current_url"
LoginChallenge(url) == url.checkpoint \/ url.login

\* Where login stops: a failing operation, or the submitted form with the
\* URL the browser then shows.
LoginOutcomes ==
  {[at |-> a, url |-> NoUrl] :
      a \in {"launch_fail", "context_fail", "page_fail", "nav_fail", "form_fail"}}
  \cup {[at |-> "submitted", url |-> [checkpoint |-> c, login |-> l]] : c, l \in BOOLEAN}

LoginFailed(tr) ==
  /\ result' = "raised"
  /\ pc' = "done"
  /\ trace' = [tr EXCEPT !.failStep = "login"]

Login ==
  /\ pc = "login"
  /\ LET tr == [trace EXCEPT !.loginCalled = TRUE] IN
     \* lines 29-36: a credential absent here was absent in the environment
     \* too, so the second fallback changes nothing
     IF LoginCredentialsMissing(args.email, args.password)
       THEN /\ result' = "raised"
            /\ pc' = "done"
            /\ trace' = [tr EXCEPT !.failStep = "login_credentials"]
            /\ UNCHANGED << browser, context, page >>
       ELSE \E o \in LoginOutcomes :
              CASE o.at = "launch_fail" ->
                     \* async_playwright().start() or chromium.launch fails
                     /\ LoginFailed([tr EXCEPT !.loginFault = TRUE])
                     /\ UNCHANGED << browser, context, page >>
                [] o.at = "context_fail" ->
                     \* browser.new_context fails
                     /\ browser' = "open"
                     /\ LoginFailed([tr EXCEPT !.loginFault = TRUE])
                     /\ UNCHANGED << context, page >>
                [] o.at = "page_fail" ->
                     \* context.add_init_script or context.new_page fails
                     /\ browser' = "open"
                     /\ context' = "open"
                     /\ LoginFailed([tr EXCEPT !.loginFault = TRUE])
                     /\ UNCHANGED page
                [] o.at = "nav_fail" ->
                     \* page.goto(login) or the wait after it fails
                     /\ browser' = "open"
                     /\ context' = "open"
                     /\ page' = "blank"
                     /\ LoginFailed([tr EXCEPT !.loginFault = TRUE])
                [] o.at = "form_fail" ->
                     \* page.fill, page.click or wait_for_load_state fails
                     /\ browser' = "open"
                     /\ context' = "open"
                     /\ page' = "login"
                     /\ LoginFailed([tr EXCEPT !.loginFault = TRUE])
                [] o.at = "submitted" ->
                     /\ browser' = "open"
                     /\ context' = "open"
                     /\ page' = "post_login"
                     /\ IF LoginChallenge(o.url)
                          THEN LoginFailed([tr EXCEPT !.submitted = TRUE, !.postUrl = o.url])
                          ELSE /\ pc' = "profile"
                               /\ trace' = [tr EXCEPT !.submitted = TRUE, !.postUrl = o.url,
                                                       !.loggedIn = TRUE]
                               /\ UNCHANGED result
  /\ UNCHANGED << others, debug_mode, html_content, disk, args, secIdx, selIdx,
                  company_urls, coIdx >>

\* ------------------------------------------- profile navigation and capture
ProfileOutcomes ==
  {"goto_fail", "goto_timeout", "wait_fail", "content_fail", "ok"}
  \cup (IF debug_mode THEN {"write_fail"} ELSE {})

\* Lines 81-96: goto, wait, content, store, debug write.  Every failure is
\* logged and re-raised by the handler at lines 122-124.
CaptureProfile ==
  /\ pc = "profile"
  /\ \E o \in ProfileOutcomes :
       LET doc == Doc("profile", "")
           tr == [trace EXCEPT !.profileNavs = @ + 1] IN
       CASE o = "goto_fail" ->
              /\ result' = "raised" /\ pc' = "done"
              /\ trace' = [tr EXCEPT !.failStep = "profile"]
              /\ UNCHANGED << html_content, disk, page, secIdx >>
         [] o \in {"goto_timeout", "wait_fail", "content_fail"} ->
              /\ page' = "profile"
              /\ result' = "raised" /\ pc' = "done"
              /\ trace' = [tr EXCEPT !.failStep = "profile"]
              /\ UNCHANGED << html_content, disk, secIdx >>
         [] o = "write_fail" ->
              /\ page' = "profile"
              /\ html_content' = Put(html_content, "profile_html", doc)
              /\ result' = "raised" /\ pc' = "done"
              /\ trace' = [tr EXCEPT !.failStep = "profile"]
              /\ UNCHANGED << disk, secIdx >>
         [] o = "ok" ->
              /\ page' = "profile"
              /\ html_content' = Put(html_content, "profile_html", doc)
              /\ disk' = DebugWrite(disk, "html_pages/profile_html.txt", doc)
              /\ pc' = "section"
              /\ secIdx' = 1
              /\ trace' = tr
              /\ UNCHANGED result
  /\ UNCHANGED << others, debug_mode, args, browser, context, selIdx, company_urls, coIdx >>

\* -------------------------------------------- _expand_and_capture_section
CurSection == Sections[secIdx]

\* The observations of one attempt are dropped when the next step of
\* scrape_profile begins.
NewAttempt(tr) ==
  [tr EXCEPT !.secMatched = FALSE, !.secWrites = 0, !.secNavs = 0]

\* Mutant: the scrape_companies flag is not consulted.
AttemptReturns_IgnoresFlag ==
  /\ selIdx' = 0
  /\ IF secIdx < NumSections
       THEN pc' = "section" /\ secIdx' = secIdx + 1
       ELSE pc' = "companies" /\ secIdx' = secIdx

\* The attempt returns to scrape_profile, which calls the next attempt
\* (lines 99-104), then the company scraping if requested (line 112).
AttemptReturns ==
  /\ selIdx' = 0
  /\ IF secIdx < NumSections
       THEN pc' = "section" /\ secIdx' = secIdx + 1
       ELSE /\ pc' = (IF args.scrape_companies THEN "companies" ELSE "close")
            /\ secIdx' = secIdx

\* Mutant: the opening waits stand outside the try block, so their failure
\* leaves the attempt as an exception.
BeginSection_Uncaught ==
  /\ pc = "section"
  /\ LET tr == [NewAttempt(trace) EXCEPT !.attempted = Append(@, CurSection)] IN
     \E o \in {"ok", "wait_fail"} :
       IF o = "ok"
         THEN /\ pc' = "selector" /\ selIdx' = 1 /\ secIdx' = secIdx
              /\ trace' = tr
              /\ UNCHANGED result
         ELSE /\ result' = "raised" /\ pc' = "done"
              /\ trace' = [tr EXCEPT !.failStep = "section"]
              /\ UNCHANGED << secIdx, selIdx >>
  /\ UNCHANGED << others, debug_mode, html_content, disk, args, browser, context, page,
                  company_urls, coIdx >>

\* Lines 127-132 and 167: the two waits that open an attempt.  Their failure
\* is caught by the outer handler (lines 220-221), which ends the attempt.
BeginSection ==
  /\ pc = "section"
  /\ LET tr == [NewAttempt(trace) EXCEPT !.attempted = Append(@, CurSection)] IN
     \E o \in {"ok", "wait_fail"} :
       /\ trace' = tr
       /\ IF o = "ok"
            THEN pc' = "selector" /\ selIdx' = 1 /\ secIdx' = secIdx
            ELSE AttemptReturns
       /\ UNCHANGED result
  /\ UNCHANGED << others, debug_mode, html_content, disk, args, browser, context, page,
                  company_urls, coIdx >>

\* "continue" and the fall-through after the else branch: the next locator of
\* the chain, or the end of the loop and of the attempt.
NextSelector ==
  IF selIdx < NumSelectors(CurSection)
    THEN pc' = "selector" /\ selIdx' = selIdx + 1 /\ secIdx' = secIdx
    ELSE AttemptReturns

SelectorOutcomes ==
  {"not_visible", "attr_fail", "no_href", "goto_fail", "goto_timeout",
   "settle_fail", "back_fail", "back_timeout", "ok"}
  \cup (IF debug_mode THEN {"write_fail"} ELSE {})

\* Lines 170-215: one iteration of the locator loop.
TrySelector ==
  /\ pc = "selector"
  /\ \E o \in SelectorOutcomes :
       LET doc == Doc("details", CurSection)
           key == ExpandedKey(CurSection)
           file == "html_pages/" \o key \o ".txt"
           seen == [trace EXCEPT !.secMatched = TRUE]
           went == [seen EXCEPT !.secNavs = @ + 1]
           kept == [went EXCEPT !.secWrites = @ + 1] IN
       CASE o = "not_visible" ->
              \* wait_for_selector times out (line 176)
              /\ NextSelector
              /\ UNCHANGED << html_content, disk, page, trace >>
         [] o \in {"attr_fail", "no_href"} ->
              \* get_attribute raises, or returns no href (lines 181-183, 211)
              /\ NextSelector
              /\ trace' = seen
              /\ UNCHANGED << html_content, disk, page >>
         [] o = "goto_fail" ->
              \* page.goto(href) raises before the navigation commits
              /\ NextSelector
              /\ trace' = went
              /\ UNCHANGED << html_content, disk, page >>
         [] o \in {"goto_timeout", "settle_fail"} ->
              \* goto raises after the navigation committed, or a wait or
              \* page.content() raises on the expanded page (lines 186-193)
              /\ NextSelector
              /\ page' = "details"
              /\ trace' = went
              /\ UNCHANGED << html_content, disk >>
         [] o = "write_fail" ->
              \* the debug write raises after the store (lines 196-202)
              /\ NextSelector
              /\ page' = "details"
              /\ html_content' = Put(html_content, key, doc)
              /\ trace' = kept
              /\ UNCHANGED disk
         [] o = "back_fail" ->
              \* page.go_back raises and the page stays (line 205)
              /\ NextSelector
              /\ page' = "details"
              /\ html_content' = Put(html_content, key, doc)
              /\ disk' = DebugWrite(disk, file, doc)
              /\ trace' = kept
         [] o = "back_timeout" ->
              \* go_back raises after going back, or the wait after it
              \* raises (lines 205-206)
              /\ NextSelector
              /\ html_content' = Put(html_content, key, doc)
              /\ disk' = DebugWrite(disk, file, doc)
              /\ trace' = kept
              /\ UNCHANGED page
         [] o = "ok" ->
              \* captured, back on the previous page, return (line 209)
              /\ AttemptReturns
              /\ html_content' = Put(html_content, key, doc)
              /\ disk' = DebugWrite(disk, file, doc)
              /\ trace' = kept
              /\ UNCHANGED page
  /\ UNCHANGED << others, debug_mode, args, browser, context, company_urls, coIdx, result >>

\* --------------------------------------------- scrape_company_about_pages
\* The sizes of the link set the Company-Link Extractor can find in a
\* captured document: only profile and experience pages are given to it,
\* and their markup is read here for the first time.
CandidateCounts(doc) == 0..MaxCompanies

\* Mutant: the base profile document is always the one read.
CompanySource_ProfileOnly == "profile_html"

\* Lines 233-237: the expanded experience document when its key is in the
\* mapping, the base profile document otherwise.
CompanySource ==
  IF Has(html_content, ExpandedKey("experiences"))
    THEN ExpandedKey("experiences")
    ELSE "profile_html"

\* Lines 230-249: derive the candidates; nothing to do when there are none;
\* in debug mode create the company directory, whose failure is caught by
\* the outer handler (lines 361-362) before the loop is entered.
BeginCompanies ==
  /\ pc = "companies"
  /\ \E n \in CandidateCounts(html_content[CompanySource]) :
     LET tr == [NewAttempt(trace) EXCEPT !.source = CompanySource] IN
     IF n = 0
       THEN /\ pc' = "close"
            /\ trace' = tr
            /\ UNCHANGED << disk, company_urls, coIdx >>
       ELSE \E o \in {"ok"} \cup (IF debug_mode THEN {"mkdir_fail"} ELSE {}) :
              IF o = "mkdir_fail"
                THEN /\ pc' = "close"
                     /\ trace' = tr
                     /\ UNCHANGED << disk, company_urls, coIdx >>
                ELSE /\ pc' = "company"
                     /\ company_urls' = Enumerate(n)
                     /\ coIdx' = 0
                     /\ disk' = IF debug_mode
                                  THEN Put(disk, "html_pages/company_about_pages", DirMark)
                                  ELSE disk
                     /\ trace' = [tr EXCEPT !.entered = TRUE]
  /\ UNCHANGED << others, debug_mode, html_content, args, browser, context, page,
                  secIdx, selIdx, result >>

\* The loop moves to the next candidate, or ends and the call returns to
\* scrape_profile (line 359).
NextCompany ==
  /\ coIdx' = coIdx + 1
  /\ pc' = IF coIdx + 1 < Len(company_urls) THEN "company" ELSE "close"
  /\ UNCHANGED result

\* Mutants of the handler at lines 356-357: without it a failure is caught
\* by the outer handler and ends the loop; without either handler it leaves
\* scrape_company_about_pages as an exception.
LoopAborted ==
  /\ coIdx' = coIdx + 1
  /\ pc' = "close"
  /\ UNCHANGED result

LoopRaised ==
  /\ coIdx' = coIdx + 1
  /\ pc' = "done"
  /\ result' = "raised"

\* How a failure inside one iteration is handled.
IterationFailed == NextCompany

CompanyOutcomes ==
  {"main_goto_fail", "main_fail", "about_fail", "about_ok"}
  \cup (IF debug_mode THEN {"main_write_fail", "about_write_fail"} ELSE {})

\* Lines 252-357: one iteration of the company loop for candidate i.  The
\* about URL is never missing: when no About link is found it is built from
\* the company URL, which holds '/company/' (lines 278-319).  A failure of
\* the trailing wait (line 354) is caught by the same handler and changes
\* nothing.
ScrapeCompany ==
  /\ pc = "company"
  /\ \E o \in CompanyOutcomes :
       LET i == coIdx
           url == company_urls[coIdx + 1]
           main == Doc("company_main", ToString(url))
           about == Doc("company_about", ToString(url))
           dir == "html_pages/company_about_pages/"
           mainFile == dir \o ToString(url) \o "_main.txt"
           aboutFile == dir \o ToString(url) \o "_about.txt"
           withMain == Put(html_content, MainKey(i), main)
           withAbout == Put(withMain, AboutKey(i), about)
           diskMain == DebugWrite(disk, mainFile, main)
           tr == [trace EXCEPT !.visits[url] = @ + 1] IN
       CASE o = "main_goto_fail" ->
              \* page.goto(company_url) raises (line 262)
              /\ IterationFailed
              /\ trace' = [tr EXCEPT !.failStep = IF result' = "raised" THEN "company" ELSE @]
              /\ UNCHANGED << html_content, disk, page >>
         [] o = "main_fail" ->
              \* the wait or page.content() raises (lines 263-266)
              /\ IterationFailed
              /\ trace' = [tr EXCEPT !.failStep = IF result' = "raised" THEN "company" ELSE @]
              /\ page' = "company"
              /\ UNCHANGED << html_content, disk >>
         [] o = "main_write_fail" ->
              \* the debug write of the main page raises (lines 272-275)
              /\ IterationFailed
              /\ trace' = [tr EXCEPT !.failStep = IF result' = "raised" THEN "company" ELSE @]
              /\ page' = "company"
              /\ html_content' = withMain
              /\ UNCHANGED disk
         [] o = "about_fail" ->
              \* goto, wait or content of the about page raises; caught
              \* at lines 340-341, about_html stays None (lines 345-348)
              /\ NextCompany
              /\ trace' = tr
              /\ page' = "company"
              /\ html_content' = Put(withMain, BestKey(i), main)
              /\ disk' = diskMain
         [] o = "about_write_fail" ->
              \* the debug write of the about page raises after the store
              /\ NextCompany
              /\ trace' = tr
              /\ page' = "about"
              /\ html_content' = Put(withAbout, BestKey(i), about)
              /\ disk' = diskMain
         [] o = "about_ok" ->
              /\ NextCompany
              /\ trace' = tr
              /\ page' = "about"
              /\ html_content' = Put(withAbout, BestKey(i), about)
              /\ disk' = DebugWrite(diskMain, aboutFile, about)
  /\ UNCHANGED << others, debug_mode, args, browser, context, secIdx, selIdx, company_urls >>

\* ------------------------------------------------------ release and return
CloseFailed ==
  /\ result' = "raised"
  /\ pc' = "done"
  /\ trace' = [NewAttempt(trace) EXCEPT !.failStep = "close"]

\* Lines 117-120: context.close(), browser.close(), return.  A failing close
\* is re-raised by the handler at lines 122-124.
CloseBrowser ==
  /\ pc = "close"
  /\ \E o \in {"ok", "context_close_fail", "browser_close_fail"} :
       CASE o = "ok" ->
              /\ context' = "closed"
              /\ browser' = "closed"
              /\ result' = "returned"
              /\ pc' = "done"
              /\ trace' = NewAttempt(trace)
         [] o = "context_close_fail" ->
              /\ CloseFailed
              /\ UNCHANGED << context, browser >>
         [] o = "browser_close_fail" ->
              /\ context' = "closed"
              /\ CloseFailed
              /\ UNCHANGED browser
  /\ UNCHANGED << others, debug_mode, html_content, disk, args, page, secIdx, selIdx,
                  company_urls, coIdx >>

Next ==
  \/ Start
  \/ Login
  \/ CaptureProfile
  \/ BeginSection
  \/ TrySelector
  \/ BeginCompanies
  \/ ScrapeCompany
  \/ CloseBrowser

Spec == Init /\ [][Next]_vars

\* ============================================ properties of the controller
\* The call has returned or raised.
Exited == pc = "done"

\* The six attempts are behind: company scraping, the release, or the exit
\* that follows them.
PastSections ==
  \/ pc \in {"companies", "company", "close"}
  \/ Exited /\ (result = "returned" \/ trace.failStep = "close")

\* The order the specification gives for the six sections.
ExpectedOrder ==
  << "experiences", "skills", "education", "languages", "projects",
     "licenses_and_certifications" >>

IsPrefix(p, q) == Len(p) <= Len(q) /\ p = SubSeq(q, 1, Len(p))

CompanyIndexes == 0..(MaxCompanies - 1)

AllCompanyKeys == UNION {CompanyKeys(i) : i \in CompanyIndexes}

NoCompanyWork ==
  /\ DOMAIN html_content \cap AllCompanyKeys = {}
  /\ \A u \in Urls : trace.visits[u] = 0
  /\ ~trace.entered
  /\ trace.source = ""
  /\ page \notin {"company", "about"}

\* C1: in every run of scrape_profile that launched a browser, the browser
\* context and the browser are closed by the time the call returns or
\* raises.
C1_ReleasedOnExit ==
  (Exited /\ browser # "none") => (browser = "closed" /\ context # "open")

\* C2: when the email or the password is still absent after the environment
\* fallback, scrape_profile raises the configuration error before login is
\* entered, before any browser launch or navigation, and the document
\* mapping is as it was at entry (empty).
C2_MissingCredentialsRaiseFirst ==
  (pc # "idle" /\ (~args.email \/ ~args.password)) =>
     /\ Exited
     /\ result = "raised"
     /\ trace.failStep = "credentials"
     /\ ~trace.loginCalled
     /\ browser = "none" /\ context = "none" /\ page = "none"
     /\ trace.profileNavs = 0
     /\ html_content = EmptyMap

C2_Witness ==
  Exited /\ result = "raised" /\ ~args.email /\ args.password

\* C3 as stated: once login has returned, scrape_profile always returns
\* (True, mapping) and never raises.
C3_NeverRaisesAfterLogin ==
  (Exited /\ trace.loggedIn) => result = "returned"

\* C3 as amended: once login has returned, no failure inside a section
\* expansion or inside company scraping makes scrape_profile raise; the call
\* raises only when the profile navigation, its wait, the content capture or
\* the debug write of the profile fails, or when closing the context or the
\* browser fails, and otherwise returns.
C3_RaisesOnlyAtProfileOrClose ==
  /\ (trace.loggedIn /\ pc \in {"section", "selector", "companies", "company"})
        => result = "none"
  /\ (trace.loggedIn /\ Exited) =>
        \/ result = "returned" /\ trace.failStep = ""
        \/ result = "raised" /\ trace.failStep = "profile" /\ trace.attempted = << >>
        \/ result = "raised" /\ trace.failStep = "close" /\ trace.attempted = ExpectedOrder

C3_Witness ==
  Exited /\ trace.loggedIn /\ result = "raised" /\ trace.failStep = "profile"

\* C4: when the URL read after the submit contains 'checkpoint' or 'login',
\* or a browser operation inside login fails, login raises and the run is
\* aborted: no navigation to the profile, no section expansion, no document
\* captured.
C4_LoginFailureAborts ==
  (pc # "login" /\ trace.loginCalled
     /\ (trace.loginFault
         \/ (trace.submitted /\ (trace.postUrl.checkpoint \/ trace.postUrl.login)))) =>
     /\ Exited
     /\ result = "raised"
     /\ trace.failStep = "login"
     /\ trace.profileNavs = 0
     /\ trace.attempted = << >>
     /\ html_content = EmptyMap
     /\ page \notin {"profile", "details", "company", "about"}

C4_Witness ==
  Exited /\ result = "raised" /\ trace.submitted
    /\ trace.postUrl.login /\ ~trace.postUrl.checkpoint

\* C5: in a run that got on the profile (the profile step completed), the
\* six expansions are attempted once each in the order experiences, skills,
\* education, languages, projects, licenses_and_certifications, all after
\* the base profile document was captured; company scraping starts only
\* after all six; with scrape_companies false no company page is visited and
\* no company_* key is added.
C5_SectionsInOrderThenCompanies ==
  /\ IsPrefix(trace.attempted, ExpectedOrder)
  /\ trace.attempted # << >> => Has(html_content, "profile_html")
  /\ pc \in {"section", "selector"} =>
        Len(trace.attempted) = (IF pc = "section" THEN secIdx - 1 ELSE secIdx)
  /\ PastSections => trace.attempted = ExpectedOrder
  /\ ~NoCompanyWork => (trace.attempted = ExpectedOrder /\ args.scrape_companies)
  /\ (Exited /\ trace.loggedIn /\ trace.failStep # "profile")
        => trace.attempted = ExpectedOrder

C5_Witness ==
  /\ Exited /\ result = "returned" /\ ~args.scrape_companies
  /\ trace.attempted = ExpectedOrder
  /\ Has(html_content, ExpandedKey("projects"))

\* C6: at the moment each section-expansion attempt starts, the page shown
\* is the profile page, whatever failed in earlier sections.
C6_AttemptStartsOnProfile ==
  pc = "section" => page = "profile"

\* C7: a section-expansion attempt never raises to scrape_profile: whatever
\* fails inside it, the attempt returns, every later section is still
\* attempted, and an attempt in which no locator became visible adds no
\* '<section>_expanded_html' key.
C7_AttemptNeverRaises ==
  /\ pc \in {"section", "selector"} => result = "none"
  /\ (Exited /\ trace.attempted # << >>) =>
        (trace.attempted = ExpectedOrder /\ trace.failStep \in {"", "close"})
  /\ PastSections => trace.attempted = ExpectedOrder
  /\ ((pc \in {"section", "selector", "companies"} \/ (pc = "close" /\ trace.source = ""))
        /\ trace.attempted # << >> /\ ~trace.secMatched) =>
        ~Has(html_content, ExpandedKey(trace.attempted[Len(trace.attempted)]))

C7_Witness ==
  /\ pc = "selector" /\ secIdx = 3
  /\ ~Has(html_content, ExpandedKey("experiences"))
  /\ Has(html_content, ExpandedKey("skills"))

\* C8: in the company loop every candidate's main page navigation is
\* attempted exactly once, a failure while processing company i leaves the
\* documents recorded for the other companies unchanged and does not keep
\* the later companies from being processed, and the loop never raises.
C8_State ==
  /\ \A u \in Urls : trace.visits[u] <= 1
  /\ pc = "company" =>
        /\ trace.entered /\ result = "none"
        /\ \A k \in 1..Len(company_urls) :
              trace.visits[company_urls[k]] = (IF k <= coIdx THEN 1 ELSE 0)
  /\ (trace.entered /\ pc \in {"close", "done"}) =>
        /\ coIdx = Len(company_urls)
        /\ \A k \in 1..Len(company_urls) : trace.visits[company_urls[k]] = 1
        /\ trace.failStep \in {"", "close"}

C8_Step ==
  pc = "company" =>
    \A j \in CompanyIndexes \ {coIdx} : \A k \in CompanyKeys(j) :
       /\ Has(html_content', k) <=> Has(html_content, k)
       /\ Has(html_content, k) => html_content'[k] = html_content[k]

\* C8: the company loop visits each candidate once, isolates the failure of
\* one iteration from the documents of the others, and never raises: C8_State
\* in every state and C8_Step at every step.
C8_CompanyLoopIsolated == [](C8_State) /\ [][C8_Step]_vars

C8_Witness ==
  /\ Exited /\ result = "returned" /\ Len(company_urls) = 2
  /\ ~Has(html_content, MainKey(0))
  /\ Has(html_content, BestKey(1))

\* C9: at the end of company iteration i the best-document key
\* company_<i>_html is present whenever the main or the about document of
\* company i was captured; it is the about document when one was captured
\* and the main document otherwise.
C9_BestDocumentRecorded ==
  \A i \in CompanyIndexes :
    (trace.entered /\ i < coIdx
       /\ (Has(html_content, MainKey(i)) \/ Has(html_content, AboutKey(i)))) =>
       /\ Has(html_content, BestKey(i))
       /\ html_content[BestKey(i)] =
            (IF Has(html_content, AboutKey(i))
               THEN html_content[AboutKey(i)]
               ELSE html_content[MainKey(i)])

\* ===================================================== the Profile Assembler
\* profile_builder.LinkedInProfileScraper.  The base profile document is its
\* sequence of profile-card blocks in document order; a block is its heading
\* (the section words the heading text holds) and whether its flattened text
\* holds "Show all".
SectionSet == {Sections[n] : n \in 1..NumSections}

\* The key of the assembled record that holds a section.
FieldName(s) ==
  IF s = "licenses_and_certifications" THEN "licenses-certifications" ELSE s

\* The words the heading test of each extract_* method looks for.
HeadingWords(s) ==
  CASE s = "experiences" -> {"Experience"}
    [] s = "education" -> {"Education"}
    [] s = "skills" -> {"Skills"}
    [] s = "languages" -> {"Languages"}
    [] s = "licenses_and_certifications" -> {"Licenses", "Certifications"}
    [] s = "projects" -> {"Projects"}

\* "if header and <word> in header.get_text(strip=True)"
HeadingMatches(s, head) == HeadingWords(s) \cap head # {}

\* Headings of profile cards: the six section headings (the heading
\* "Licenses & certifications" holds 'Licenses' only) and one of another card.
Headings ==
  {{"Experience"}, {"Education"}, {"Skills"}, {"Languages"}, {"Licenses"},
   {"Projects"}, {}}

Blocks == [head : Headings, showAll : BOOLEAN]

\* section.get_text(separator=' | ', strip=True) of block k.
InlineText(k, b) ==
  [from |-> "inline", at |-> k, label |-> b.head, showAll |-> b.showAll]

\* The aria-label variants each expanded-section extractor tries, in order.
Anchors(s) ==
  CASE s = "experiences" -> << "Experience" >>
    [] s = "education" -> << "Education" >>
    [] s = "skills" -> << "Skills" >>
    [] s = "languages" -> << "Languages", "Language" >>
    [] s = "licenses_and_certifications" ->
         << "Licenses & certifications", "Licenses & Certifications", "Licenses" >>
    [] s = "projects" -> << "Projects" >>

\* An expanded document: the empty string, or markup whose <main> elements
\* are given by the set of their aria-labels; tag tells where it is kept.
ExpandedDoc(tag, empty, mains) == [tag |-> tag, empty |-> empty, mains |-> mains]

\* main_section.get_text(separator=' | ', strip=True) of the <main> labelled v.
MainText(doc, v) ==
  [from |-> doc.tag, at |-> 0, label |-> {v}, showAll |-> FALSE]

\* extract_experience, extract_skills, ...: soup.find('main', attrs=
\* {'aria-label': variant}) for each variant in order; the text of the first
\* one found, as a list of one block; else [].
RECURSIVE ExtractFrom(_, _, _)
ExtractFrom(s, doc, v) ==
  IF v > Len(Anchors(s)) THEN << >>
  ELSE IF Anchors(s)[v] \in doc.mains
    THEN << MainText(doc, Anchors(s)[v]) >>
    ELSE ExtractFrom(s, doc, v + 1)

\* Mutant: the last variant of the chain found in the document is taken.
Extractor_LastVariant(s, doc) ==
  LET found == {v \in 1..Len(Anchors(s)) : Anchors(s)[v] \in doc.mains} IN
  IF found = {} THEN << >>
  ELSE << MainText(doc, Anchors(s)[CHOOSE v \in found : \A w \in found : w <= v]) >>

Extractor(s, doc) == ExtractFrom(s, doc, 1)

\* "if html_content: ... elif html_file: ... else: raise ValueError": the
\* constructor of an extractor given html_content only fails on an empty
\* string.
ConstructorRaises(doc) == doc.empty

FileName(s) == ExpandedKey(s) \o ".txt"

\* Mutant: the handler of the try block catches ValueError only.
Handled_ValueErrorOnly(e) == e = "ValueError"

\* "except Exception as e": the handler catches every exception.
Handled(e) == TRUE

NotExpanded == [returned |-> FALSE, value |-> << >>, opened |-> {}, error |-> ""]

\* The try block of an extract_* method (lines 93-107 and alike): the
\* in-memory document first, else the file of the session directory.
\* returned: the method returns value; otherwise it goes on to the inline
\* text.  opened: the files it opened.  error: the exception raised inside
\* the block ("" when none).
Expand(s, a) ==
  IF a.html_content_dict # EmptyMap /\ Has(a.html_content_dict, ExpandedKey(s))
    THEN LET doc == a.html_content_dict[ExpandedKey(s)] IN
         IF ConstructorRaises(doc)
           THEN [NotExpanded EXCEPT !.error = "ValueError"]
           ELSE [NotExpanded EXCEPT !.returned = TRUE, !.value = Extractor(s, doc)]
  ELSE IF a.session_dir.given /\ Has(a.session_dir.files, FileName(s))
    THEN LET f == a.session_dir.files[FileName(s)] IN
         IF ~f.readable
           THEN [NotExpanded EXCEPT !.opened = {FileName(s)}, !.error = "OSError"]
           ELSE [NotExpanded EXCEPT !.returned = TRUE,
                                    !.value = Extractor(s, f.doc),
                                    !.opened = {FileName(s)}]
  ELSE NotExpanded

\* extract_skills, extract_languages, extract_licenses_certifications and
\* extract_projects return right after appending the inline text;
\* extract_experiences and extract_education go on to the next block.
ReturnsAfterAppend(s) == s \notin {"experiences", "education"}

\* Mutant: the expanded document is looked for whatever the block's text.
NeedsExpansion_Always(b) == TRUE

\* "if 'Show all' in full_text"
NeedsExpansion(b) == b.showAll

\* One extract_* method: the loop over the profile-card blocks from block k
\* on, with the list built so far.
RECURSIVE ScanBlocks(_, _, _, _)
ScanBlocks(s, a, k, acc) ==
  IF k > Len(a.soup) THEN [value |-> acc, opened |-> {}, raised |-> FALSE]
  ELSE IF ~HeadingMatches(s, a.soup[k].head) THEN ScanBlocks(s, a, k + 1, acc)
  ELSE
    LET b == a.soup[k]
        ex == IF NeedsExpansion(b) THEN Expand(s, a) ELSE NotExpanded
        withInline == Append(acc, InlineText(k, b)) IN
    IF ex.error # "" /\ ~Handled(ex.error)
      THEN [value |-> << >>, opened |-> ex.opened, raised |-> TRUE]
    ELSE IF ex.returned
      THEN [value |-> ex.value, opened |-> ex.opened, raised |-> FALSE]
    ELSE IF ReturnsAfterAppend(s)
      THEN [value |-> withInline, opened |-> ex.opened, raised |-> FALSE]
    ELSE LET rest == ScanBlocks(s, a, k + 1, withInline) IN
         [rest EXCEPT !.opened = ex.opened \cup rest.opened]

ExtractSection(s, a) == ScanBlocks(s, a, 1, << >>)

\* ------------------------------------------------ Python values of a record
\* A field of the assembled record is a list, a string or None.
List(items) == [type |-> "list", items |-> items]

Str(text) == [type |-> "str", text |-> text]

None == [type |-> "none"]

\* ------------------------------------------- name, headline, about
\* The parts of the base profile document the three scalar extractors look
\* at: a <title>, an <h1> of class text-heading-xlarge, a <div> of class
\* text-body-medium, and the About block, whose text is in the visible span,
\* in the hidden span, or missing.
AboutShapes == {"absent", "empty", "visible", "hidden"}

Heads ==
  [title : BOOLEAN, h1 : BOOLEAN, headline : BOOLEAN, about : AboutShapes]

\* extract_name (lines 51-67)
ExtractName(h) ==
  IF h.title THEN Str("title") ELSE IF h.h1 THEN Str("h1") ELSE None

\* extract_headline (lines 69-74)
ExtractHeadline(h) == IF h.headline THEN Str("headline") ELSE None

\* extract_about (lines 370-418): "result if result else None"
ExtractAbout(h) ==
  IF h.about \in {"visible", "hidden"} THEN Str(h.about) ELSE None

\* ------------------------------------------------------- current_companies
\* A company about-document: the empty string, or markup from which
\* extract_company_info gets a name ("" when none) and an overview or not.
CompanyNames == {"Acme Corp", "Globex"}

CompanyDoc(empty, name, overview) ==
  [tag |-> "company", empty |-> empty, name |-> name, overview |-> overview]

CompanyDocs ==
  {CompanyDoc(TRUE, "", FALSE)}
    \cup {CompanyDoc(FALSE, n, o) : n \in CompanyNames \cup {""}, o \in BOOLEAN}

\* The k-th file pair of a company directory is <slug>_main.txt and
\* <slug>_about.txt; file names of one directory differ.
FileSlug(k) == IF k = 1 THEN "acme-corp" ELSE "company-" \o ToString(k)

\* source_name.split('_')[0].replace('-', ' ').title()
SynthesizedName(k) == IF k = 1 THEN "Acme Corp" ELSE "Company " \o ToString(k)

\* What process_about_file is given: a document of the mapping, or the
\* path of a file of a company directory.
Content(doc) == [kind |-> "content", slug |-> 0, readable |-> TRUE, doc |-> doc]

NoInfo == [valid |-> FALSE, name |-> "", overview |-> FALSE, source |-> ""]

\* process_about_file (about_scraper.py lines 134-181): None for an
\* unreadable file and for empty content; else the extracted record with its
\* source, the name taken from the file name when neither name nor overview
\* was extracted and the source is a file.
ProcessAboutFile(src) ==
  IF ~src.readable \/ src.doc.empty THEN NoInfo
  ELSE
    LET source == IF src.kind = "file" THEN FileSlug(src.slug) \o "_about.txt"
                                      ELSE "in_memory_content"
        name == IF src.doc.name = "" /\ ~src.doc.overview /\ src.kind = "file"
                  THEN SynthesizedName(src.slug)
                  ELSE src.doc.name IN
    [valid |-> TRUE, name |-> name, overview |-> src.doc.overview,
     source |-> source]

\* Keys of the mapping by their prefix and suffixes.
StartsWithCompany(k) == \E i \in 0..(MaxCompanies - 1) : k \in CompanyKeys(i)

EndsWithMain(k) == \E i \in 0..(MaxCompanies - 1) : k = MainKey(i)

EndsWithAbout(k) == \E i \in 0..(MaxCompanies - 1) : k = AboutKey(i)

\* Mutant: every company_* key is taken.
IsCompanyKey_AnySuffix(k) == StartsWithCompany(k)

\* Lines 316-318: k.startswith('company_') and k.endswith('_html') and not
\* k.endswith('_main_html') and not k.endswith('_about_html'); every
\* company_* key of a mapping ends with '_html'.
IsCompanyKey(k) == StartsWithCompany(k) /\ ~EndsWithMain(k) /\ ~EndsWithAbout(k)

\* The company keys in the order the controller inserts them: main, about
\* and best key of company 0, then those of company 1, ...
KeyOrder ==
  [j \in 1..(3 * MaxCompanies) |->
     LET i == (j - 1) \div 3 IN
     CASE (j - 1) % 3 = 0 -> MainKey(i)
       [] (j - 1) % 3 = 1 -> AboutKey(i)
       [] OTHER -> BestKey(i)]

\* company_keys (lines 316-318), in mapping order.
CompanyKeysOf(d) == SelectSeq(KeyOrder, LAMBDA k : Has(d, k) /\ IsCompanyKey(k))

\* Mutant: an entry is appended whatever names were processed before.
Unprocessed_Always(info, acc) == TRUE

\* "company_info['name'] not in processed_companies"
Unprocessed(info, acc) == \A j \in 1..Len(acc) : acc[j].name # info.name

\* Lines 324-333: the loop over company_keys.
RECURSIVE FromMemory(_, _, _, _)
FromMemory(d, keys, k, acc) ==
  IF k > Len(keys) THEN acc
  ELSE
    LET info == ProcessAboutFile(Content(d[keys[k]])) IN
    IF info.valid /\ info.name # "" /\ Unprocessed(info, acc)
      THEN FromMemory(d, keys, k + 1, Append(acc, info))
      ELSE FromMemory(d, keys, k + 1, acc)

\* f.endswith('_about.txt'), glob('*_about.txt')
IsAboutFile(f) == f.kind = "about"

\* Lines 340-349 and 354-361: the loop over the about files of a directory.
RECURSIVE FromFiles(_, _, _)
FromFiles(files, k, acc) ==
  IF k > Len(files) THEN acc
  ELSE
    LET f == files[k]
        info == ProcessAboutFile([kind |-> "file", slug |-> f.slug,
                                  readable |-> f.readable, doc |-> f.doc]) IN
    IF IsAboutFile(f) /\ info.valid
      THEN FromFiles(files, k + 1, Append(acc, info))
      ELSE FromFiles(files, k + 1, acc)

AboutFilesRead(dir) ==
  {FileSlug(dir.files[k].slug) \o "_about.txt" :
     k \in {j \in 1..Len(dir.files) : IsAboutFile(dir.files[j])}}

\* Mutant: the outer handler returns None.
ExtractionFailed_None == None

\* Lines 366-368: the outer handler of extract_companies returns [].
ExtractionFailed == List(<< >>)

\* extract_companies (lines 308-368): the in-memory best documents when the
\* mapping has any, else the company_about_pages directory of the session
\* directory when it exists, else the legacy directory; an exception (a
\* directory that cannot be listed) is caught by the outer handler and gives
\* [].  source and read tell which source was taken and what was read of it.
ExtractCompanies(a) ==
  LET d == a.html_content_dict
      ses == a.companies.session
      leg == a.companies.legacy IN
  IF d # EmptyMap /\ CompanyKeysOf(d) # << >>
    THEN [value |-> List(FromMemory(d, CompanyKeysOf(d), 1, << >>)),
          source |-> "memory", read |-> Range(CompanyKeysOf(d))]
  ELSE IF a.session_dir.given /\ ses.exists
    THEN IF ses.listable
           THEN [value |-> List(FromFiles(ses.files, 1, << >>)),
                 source |-> "session", read |-> AboutFilesRead(ses)]
           ELSE [value |-> ExtractionFailed, source |-> "session", read |-> {}]
  ELSE IF leg.exists
    THEN [value |-> List(FromFiles(leg.files, 1, << >>)), source |-> "legacy",
          read |-> AboutFilesRead(leg)]
  ELSE [value |-> List(<< >>), source |-> "none", read |-> {}]

\* The documents an assembler can be given.  The base profile document is any
\* sequence of at most MaxBlocks blocks; the expanded documents, in memory and
\* in the session directory, are those of one section s, since every extract_*
\* method reads no key and no file but the one named after its own section.
\* The section after s in the order of the record's fields.
OtherSection(s) ==
  CASE s = "experiences" -> "education"
    [] s = "education" -> "skills"
    [] s = "skills" -> "languages"
    [] s = "languages" -> "licenses_and_certifications"
    [] s = "licenses_and_certifications" -> "projects"
    [] s = "projects" -> "experiences"

\* Base profile documents built around section s: cards headed for s, for
\* one other section, or with no heading word of any section.
Soups(s) ==
  LET cards == {b \in Blocks : \/ HeadingMatches(s, b.head)
                               \/ HeadingMatches(OtherSection(s), b.head)
                               \/ b.head = {}} IN
  UNION {[1..n -> cards] : n \in 0..MaxBlocks}

DocShapes(s, tag) == {ExpandedDoc(tag, FALSE, m) : m \in SUBSET Range(Anchors(s))}

ProfileDoc == [tag |-> "profile", empty |-> FALSE, mains |-> {}]

Mappings(s) ==
  {EmptyMap, Put(EmptyMap, "profile_html", ProfileDoc)}
    \cup {Put(Put(EmptyMap, "profile_html", ProfileDoc), ExpandedKey(s), d) :
            d \in DocShapes(s, "memory") \cup {ExpandedDoc("memory", TRUE, {})}}

SessionFiles(s) ==
  {[readable |-> FALSE, doc |-> ExpandedDoc("file", FALSE, {})]}
    \cup {[readable |-> TRUE, doc |-> d] : d \in DocShapes(s, "file")}

Sessions(s) ==
  {[given |-> FALSE, files |-> EmptyMap], [given |-> TRUE, files |-> EmptyMap]}
    \cup {[given |-> TRUE, files |-> Put(EmptyMap, FileName(s), f)] :
            f \in SessionFiles(s)}

\* The company documents of a mapping: for company i nothing, the main
\* document alone, or the main, about and best documents.
MainPage == CompanyDoc(FALSE, "", TRUE)

CompanyEntries(i) ==
  {EmptyMap, Put(EmptyMap, MainKey(i), MainPage)}
    \cup {Put(Put(Put(EmptyMap, MainKey(i), d), AboutKey(i), d), BestKey(i), d) :
            d \in CompanyDocs}

Merge(m, e) ==
  [k \in DOMAIN m \cup DOMAIN e |-> IF k \in DOMAIN e THEN e[k] ELSE m[k]]

ProfileOnly == Put(EmptyMap, "profile_html", ProfileDoc)

RECURSIVE CompanyMappings(_)
CompanyMappings(n) ==
  IF n = 0 THEN {ProfileOnly}
  ELSE {Merge(m, e) : m \in CompanyMappings(n - 1), e \in CompanyEntries(n - 1)}

PlainDoc == CompanyDoc(FALSE, "Globex", TRUE)

SimpleMappings ==
  {EmptyMap, ProfileOnly, Merge(ProfileOnly, Put(EmptyMap, MainKey(0), MainPage)),
   Merge(ProfileOnly, Put(EmptyMap, BestKey(0), PlainDoc))}

\* The files of a company directory, the k-th named after FileSlug(k).
FileShapes ==
  {[kind |-> "main", readable |-> TRUE, doc |-> MainPage],
   [kind |-> "about", readable |-> FALSE, doc |-> MainPage]}
    \cup {[kind |-> "about", readable |-> TRUE, doc |-> d] : d \in CompanyDocs}

Named(f) ==
  [k \in DOMAIN f |-> [slug |-> k, kind |-> f[k].kind,
                       readable |-> f[k].readable, doc |-> f[k].doc]]

NoDir == [exists |-> FALSE, listable |-> FALSE, files |-> << >>]

SimpleDir ==
  [exists |-> TRUE, listable |-> TRUE,
   files |-> Named(<< [kind |-> "about", readable |-> TRUE, doc |-> PlainDoc] >>)]

Dirs ==
  {[exists |-> TRUE, listable |-> FALSE, files |-> << >>]}
    \cup {[exists |-> TRUE, listable |-> TRUE, files |-> Named(f)] :
            f \in UNION {[1..n -> FileShapes] : n \in 0..MaxCompanies}}

NoSession == [given |-> FALSE, files |-> EmptyMap]

EmptySession == [given |-> TRUE, files |-> EmptyMap]

\* A session directory with its company_about_pages directory.
SimpleSessions == {<<NoSession, NoDir>>, <<EmptySession, NoDir>>, <<EmptySession, SimpleDir>>}

\* The inputs of extract_companies: every shape of one source, with the
\* other two sources missing or plain.
CompanyInputs ==
  {[dict |-> d, ses |-> x[1], dirs |-> [session |-> x[2], legacy |-> l]] :
     d \in CompanyMappings(MaxCompanies), x \in SimpleSessions, l \in {NoDir, SimpleDir}}
  \cup
  {[dict |-> d, ses |-> EmptySession, dirs |-> [session |-> x, legacy |-> l]] :
     d \in SimpleMappings, x \in Dirs, l \in {NoDir, SimpleDir}}
  \cup
  {[dict |-> d, ses |-> x[1], dirs |-> [session |-> x[2], legacy |-> l]] :
     d \in SimpleMappings, x \in SimpleSessions, l \in Dirs}

NoHead == [title |-> FALSE, h1 |-> FALSE, headline |-> FALSE, about |-> "absent"]

\* The arguments html_content and html_file of the constructor: html_content
\* given or not, html_file not given, given and readable, given and not.
Givens ==
  {<<TRUE, "none">>, <<FALSE, "none">>, <<FALSE, "readable">>,
   <<FALSE, "unreadable">>}

\* __init__ (lines 18-49): the base document comes from html_content, else
\* from html_file (and is then put in the mapping), else from the mapping's
\* 'profile_html'; with none of them the constructor raises.
Construct(given, soup, head, dict, ses, dirs) ==
  LET content == given[1]
      file == given[2]
      built(d) ==
        [NoAssembler EXCEPT !.step = "built", !.soup = soup, !.head = head,
                            !.html_content_dict = d, !.session_dir = ses,
                            !.companies = dirs]
      failed == [NoAssembler EXCEPT !.step = "rejected"] IN
  IF content THEN built(dict)
  ELSE IF file = "unreadable" THEN failed
  ELSE IF file = "readable"
    THEN built(IF Has(dict, "profile_html") THEN dict
               ELSE Put(dict, "profile_html", ProfileDoc))
  ELSE IF Has(dict, "profile_html") THEN built(dict)
  ELSE failed

\* A caller constructs the assembler.  Its inputs vary one part at a time:
\* the profile cards with the expanded documents of one section, or the
\* scalar parts of the profile, or the company documents.
NewAssembler ==
  /\ asm.step = "none"
  /\ \E given \in Givens :
       \/ \E s \in SectionSet :
            \E soup \in Soups(s), dict \in Mappings(s), ses \in Sessions(s) :
              asm' = Construct(given, soup, NoHead, dict, ses,
                               [session |-> NoDir, legacy |-> NoDir])
       \/ \E head \in Heads, dict \in {EmptyMap, ProfileOnly} :
            asm' = Construct(given, << >>, head, dict, NoSession,
                             [session |-> NoDir, legacy |-> NoDir])
       \/ \E x \in CompanyInputs :
            asm' = Construct(given, << >>, NoHead, x.dict, x.ses, x.dirs)
  /\ UNCHANGED << ctlVars, call >>

Fields == {FieldName(s) : s \in SectionSet}

SectionOf(f) == CHOOSE s \in SectionSet : FieldName(s) = f

\* The keys of the dict literal of scrape_profile.
RecordKeys == {"name", "headline", "about", "current_companies"} \cup Fields

\* The dict literal of scrape_profile (lines 422-433) for assembler a.
Record(a) ==
  [f \in RecordKeys |->
     CASE f = "name" -> ExtractName(a.head)
       [] f = "headline" -> ExtractHeadline(a.head)
       [] f = "about" -> ExtractAbout(a.head)
       [] f = "current_companies" -> ExtractCompanies(a).value
       [] OTHER -> List(ExtractSection(SectionOf(f), a).value)]

\* scrape_profile (lines 420-434): the ten extract_* calls; an exception
\* that leaves one of them leaves scrape_profile.
AssembleProfile ==
  /\ asm.step = "built"
  /\ IF \E s \in SectionSet : ExtractSection(s, asm).raised
       THEN asm' = [asm EXCEPT !.step = "raised"]
       ELSE asm' = [asm EXCEPT
              !.step = "assembled",
              !.profile = Record(asm),
              !.opened = UNION {ExtractSection(s, asm).opened : s \in SectionSet},
              !.source = ExtractCompanies(asm).source,
              !.read = ExtractCompanies(asm).read]
  /\ UNCHANGED << ctlVars, call >>

InitAsm == Init /\ ~debug_mode

NextAsm == NewAssembler \/ AssembleProfile

SpecAsm == InitAsm /\ [][NextAsm]_vars

\* ------------------------------------------------ properties of the assembler
Assembled == asm.step = "assembled"

HasBlock(s) == \E k \in 1..Len(asm.soup) : HeadingMatches(s, asm.soup[k].head)

\* The section's block of the base profile: the first one whose heading
\* matches.
FirstBlock(s) ==
  CHOOSE k \in 1..Len(asm.soup) :
    /\ HeadingMatches(s, asm.soup[k].head)
    /\ \A j \in 1..(k - 1) : ~HeadingMatches(s, asm.soup[j].head)

Truncated(s) == HasBlock(s) /\ asm.soup[FirstBlock(s)].showAll

InMemory(s) == Has(asm.html_content_dict, ExpandedKey(s))

\* C10: when a section's block of the base profile holds "Show all" and the
\* mapping has the section's expanded document, the assembled field is the
\* extractor's output on that document (empty or not), and the section's file
\* of the session directory is not read.
C10_ExpandedDocumentWins ==
  Assembled =>
    \A s \in SectionSet :
      (Truncated(s) /\ InMemory(s)) =>
        /\ asm.profile[FieldName(s)] =
             List(Extractor(s, asm.html_content_dict[ExpandedKey(s)]))
        /\ FileName(s) \notin asm.opened

\* The method reads one block of the section only: it returns at the first
\* matching block, or the profile has a single matching block.
SoleBlock(s) ==
  /\ HasBlock(s)
  /\ \/ ReturnsAfterAppend(s)
     \/ \A k \in 1..Len(asm.soup) :
          HeadingMatches(s, asm.soup[k].head) => k = FirstBlock(s)

OnFile(s) == asm.session_dir.given /\ Has(asm.session_dir.files, FileName(s))

Inline(s) == List(<< InlineText(FirstBlock(s), asm.soup[FirstBlock(s)]) >>)

\* C11: when the section's block holds "Show all" and neither the in-memory
\* expanded document nor the session file exists, the assembled field is the
\* block's inline text; when the block does not hold "Show all" the field is
\* the inline text whether or not an expanded document exists.
C11_InlineTextKept ==
  Assembled =>
    \A s \in SectionSet :
      SoleBlock(s) =>
        /\ (Truncated(s) /\ ~InMemory(s) /\ ~OnFile(s)) =>
              asm.profile[FieldName(s)] = Inline(s)
        /\ ~Truncated(s) => asm.profile[FieldName(s)] = Inline(s)

C11_Witness ==
  /\ Assembled
  /\ \E s \in SectionSet :
       SoleBlock(s) /\ Truncated(s) /\ ~InMemory(s) /\ ~OnFile(s)
         /\ asm.profile[FieldName(s)] = Inline(s)
  /\ \E s \in SectionSet :
       SoleBlock(s) /\ ~Truncated(s) /\ InMemory(s)
         /\ ~asm.html_content_dict[ExpandedKey(s)].empty
         /\ asm.profile[FieldName(s)] = Inline(s)

\* C12: every record scrape_profile returns has exactly the ten keys; the six
\* section fields and current_companies are lists and name, headline and
\* about are a string or None, whatever documents are present or missing.
C12_RecordShape ==
  Assembled =>
    /\ DOMAIN asm.profile =
         {"name", "headline", "about", "experiences", "education", "skills",
          "languages", "licenses-certifications", "projects", "current_companies"}
    /\ \A f \in Fields \cup {"current_companies"} : asm.profile[f].type = "list"
    /\ \A f \in {"name", "headline", "about"} :
         asm.profile[f].type \in {"str", "none"}

\* A record assembled although the company directory could not be listed.
C12_Witness ==
  /\ Assembled
  /\ asm.source = "session" /\ ~asm.companies.session.listable
  /\ asm.profile["current_companies"] = List(<< >>)
  /\ asm.profile["name"] = None

\* The expansion of section s was tried and failed inside its try block.
ExpansionFailed(s) ==
  /\ Expand(s, asm).error # ""
  /\ \E k \in 1..Len(asm.soup) :
       /\ HeadingMatches(s, asm.soup[k].head) /\ asm.soup[k].showAll
       /\ ReturnsAfterAppend(s) => k = FirstBlock(s)

\* The assembler without the expanded documents of section s.
WithoutExpanded(s) ==
  [asm EXCEPT
     !.html_content_dict =
        [k \in DOMAIN asm.html_content_dict \ {ExpandedKey(s)} |->
           asm.html_content_dict[k]],
     !.session_dir.files =
        [k \in DOMAIN asm.session_dir.files \ {FileName(s)} |->
           asm.session_dir.files[k]]]

\* The assembler without the company directory of the session directory.
WithoutCompanyDir == [asm EXCEPT !.companies.session = NoDir]

ListingFailed == asm.source = "session" /\ ~asm.companies.session.listable

\* C13: scrape_profile of an assembler that was given a base profile
\* document never raises; when the expansion of a section fails the field is
\* the default (inline) value, when the company directory cannot be listed
\* current_companies is empty, and every other field is what it is without
\* the failing document.
C13_FailuresIsolated ==
  /\ asm.step # "raised"
  /\ Assembled =>
       /\ \A s \in SectionSet :
            ExpansionFailed(s) =>
              \A f \in RecordKeys : asm.profile[f] = Record(WithoutExpanded(s))[f]
       /\ ListingFailed =>
            /\ asm.profile["current_companies"] = List(<< >>)
            /\ \A f \in RecordKeys \ {"current_companies"} :
                 asm.profile[f] = Record(WithoutCompanyDir)[f]

C13_Witness ==
  /\ Assembled
  /\ \E s \in SectionSet :
       /\ ExpansionFailed(s) /\ OnFile(s) /\ ~InMemory(s)
       /\ asm.profile[FieldName(s)] = Inline(s)

BestKeysOf(d) == {k \in DOMAIN d : \E i \in 0..(MaxCompanies - 1) : k = BestKey(i)}

\* The source extract_companies read, by the priority memory, session
\* directory, legacy directory, and what it read of it.
C14_Priority ==
  Assembled =>
    LET best == BestKeysOf(asm.html_content_dict)
        ses == asm.companies.session
        leg == asm.companies.legacy IN
    /\ best # {} => asm.source = "memory" /\ asm.read = best
    /\ (best = {} /\ asm.session_dir.given /\ ses.exists) =>
          asm.source = "session" /\ asm.read \subseteq AboutFilesRead(ses)
    /\ (best = {} /\ ~(asm.session_dir.given /\ ses.exists) /\ leg.exists) =>
          asm.source = "legacy" /\ asm.read = AboutFilesRead(leg)
    /\ (best = {} /\ ~(asm.session_dir.given /\ ses.exists) /\ ~leg.exists) =>
          asm.source = "none" /\ asm.read = {}

\* One company about-document in the mapping gives one entry.
C14_OneDocumentOneEntry ==
  Assembled =>
    \A k \in BestKeysOf(asm.html_content_dict) :
      (BestKeysOf(asm.html_content_dict) = {k}
         /\ ~asm.html_content_dict[k].empty) =>
        Len(asm.profile["current_companies"].items) = 1

\* C14: extract_companies reads one source chosen by priority (the best
\* keys of the mapping, never a _main_html or _about_html key; else the
\* company_about_pages files of the session directory; else the legacy
\* directory), and with a profile document and one in-memory company
\* about-document current_companies has length 1.
C14_OneSourceByPriority == C14_Priority /\ C14_OneDocumentOneEntry

\* The record of the k-th best document of the mapping, in mapping order.
InfoOfKey(k) ==
  ProcessAboutFile(Content(asm.html_content_dict[CompanyKeysOf(asm.html_content_dict)[k]]))

\* C15: current_companies never holds two entries of the same name, whichever
\* source supplied them; of the in-memory documents that give one name, the
\* entry kept is that of the first in mapping order.
C15_NoDuplicateNames ==
  Assembled =>
    LET items == asm.profile["current_companies"].items IN
    /\ \A i, j \in 1..Len(items) : i # j => items[i].name # items[j].name
    /\ asm.source = "memory" =>
         \A i \in 1..Len(items) :
           \E k \in 1..Len(CompanyKeysOf(asm.html_content_dict)) :
             /\ items[i] = InfoOfKey(k)
             /\ \A m \in 1..(k - 1) : InfoOfKey(m).name # items[i].name

\* ================================================== stand-alone functions
\* Sequences over S of length at most n.
SeqsUpTo(S, n) == UNION {[1..k -> S] : k \in 0..n}

\* --------------------------------------------- extract_current_companies
\* A Python set.
Set(items) == [type |-> "set", items |-> items]

\* Texts of span.pvs-entity__caption-wrapper elements.
Captions == {"Jan 2020 - Present", "2019 - present", "Jan 2018 - Dec 2019"}

\* str.lower() on the caption, label and heading texts of the documents.
Lower(text) ==
  CASE text = "Jan 2020 - Present" -> "jan 2020 - present"
    [] text = "2019 - present" -> "2019 - present"
    [] text = "Jan 2018 - Dec 2019" -> "jan 2018 - dec 2019"
    [] text = "Website" -> "website"
    [] text = "Industry" -> "industry"
    [] text = "Company size" -> "company size"
    [] text = "Headquarters" -> "headquarters"
    [] text = "Phone" -> "phone"
    [] text = "About us" -> "about us"

\* "'present' in text", case-sensitive as Python's operator is.
ContainsPresent(text) == text \in {"jan 2020 - present", "2019 - present"}

\* href attributes of the <a> elements of an item; "" is an <a> without one.
Hrefs ==
  {"", "/in/jane/", "/company/acme/", "/company/globex/",
   "https://www.linkedin.com/company/acme/"}

\* "lambda x: x and '/company/' in x"
HasCompany(href) ==
  href \in {"/company/acme/", "/company/globex/",
            "https://www.linkedin.com/company/acme/"}

\* url.startswith('http')
StartsWithHttp(href) == href = "https://www.linkedin.com/company/acme/"

\* The <a> sequences of the li.pvs-list__paged-list-item elements.
LinkLists ==
  {<< >>, << "" >>, << "/company/acme/" >>,
   << "/in/jane/", "https://www.linkedin.com/company/acme/" >>,
   << "/company/globex/", "/company/acme/" >>}

\* An experience item: its caption elements (none or one) and its links.
Entries ==
  [caption : {<< >>} \cup {<< c >> : c \in Captions}, links : LinkLists]

\* Mutant: the caption is tested without lower-casing it.
IsCurrent_CaseSensitive(e) ==
  e.caption # << >> /\ ContainsPresent(e.caption[1])

\* Negation of "if not date_el or 'present' not in
\* date_el.get_text(strip=True).lower(): continue".
IsCurrent(e) ==
  e.caption # << >> /\ ContainsPresent(Lower(e.caption[1]))

\* item.find('a', href=...): the first matching link, "" when there is none.
RECURSIVE FindCompanyLink(_, _)
FindCompanyLink(links, k) ==
  IF k > Len(links) THEN ""
  ELSE IF HasCompany(links[k]) THEN links[k]
  ELSE FindCompanyLink(links, k + 1)

\* "if not url.startswith('http'): url = f'https://www.linkedin.com{url}'"
Url(href) ==
  IF StartsWithHttp(href) THEN href ELSE "https://www.linkedin.com" \o href

\* The loop over experience_items, building company_urls.
RECURSIVE CompanyUrlsOf(_, _, _)
CompanyUrlsOf(entries, k, acc) ==
  IF k > Len(entries) THEN acc
  ELSE LET link == FindCompanyLink(entries[k].links, 1) IN
       IF IsCurrent(entries[k]) /\ link # ""
         THEN CompanyUrlsOf(entries, k + 1, Append(acc, Url(link)))
         ELSE CompanyUrlsOf(entries, k + 1, acc)

\* An html_source argument: a content string, a path of an existing file, or
\* a value that is no string; readable tells whether open/read succeed,
\* parses whether BeautifulSoup accepts the markup.
HtmlSource(kind, readable, parses, entries) ==
  [kind |-> kind, readable |-> readable, parses |-> parses, entries |-> entries]

\* extract_current_companies: any exception ends in "return []".
ExtractCurrentCompanies(src) ==
  IF src.kind = "nonstring" THEN List(<< >>)
  ELSE IF src.kind = "file" /\ ~src.readable THEN List(<< >>)
  ELSE IF ~src.parses THEN List(<< >>)
  ELSE Set(Range(CompanyUrlsOf(src.entries, 1, << >>)))

HtmlSources ==
  {HtmlSource("content", TRUE, TRUE, e) : e \in SeqsUpTo(Entries, MaxEntries)}
    \cup {HtmlSource("file", TRUE, TRUE, e) : e \in SeqsUpTo(Entries, 1)}
    \cup {HtmlSource("file", FALSE, TRUE, << >>),
          HtmlSource("content", TRUE, FALSE, << >>),
          HtmlSource("nonstring", TRUE, TRUE, << >>)}

\* A call of a function on an input, before it has run.
Call(fn, input) == [fn |-> fn, done |-> FALSE, input |-> input, output |-> None]

CallExtractCurrentCompanies ==
  /\ call.fn = "extract_current_companies"
  /\ ~call.done
  /\ call' = [call EXCEPT !.done = TRUE,
                          !.output = ExtractCurrentCompanies(call.input)]
  /\ UNCHANGED << ctlVars, asm >>

\* ------------------------------------------------ the section extractors
\* Documents handed to the extractor of section s as html_content: the empty
\* string, or markup with any of the section's <main> labels and another.
ExtractorDocs(s) ==
  {ExpandedDoc("memory", FALSE, m) :
     m \in SUBSET (Range(Anchors(s)) \cup {"Interests"})}
    \cup {ExpandedDoc("memory", TRUE, {})}

ExtractorInputs ==
  UNION {{[section |-> s, doc |-> d] : d \in ExtractorDocs(s)} : s \in SectionSet}

\* "XScraper(html_content=doc).extract_x()": the constructor, then the method.
RunExtractor(s, doc) ==
  IF ConstructorRaises(doc)
    THEN [raised |-> TRUE, error |-> "ValueError", value |-> None]
    ELSE [raised |-> FALSE, error |-> "", value |-> List(Extractor(s, doc))]

CallExtractor ==
  /\ call.fn = "extractor"
  /\ ~call.done
  /\ call' = [call EXCEPT !.done = TRUE,
                          !.output = RunExtractor(call.input.section, call.input.doc)]
  /\ UNCHANGED << ctlVars, asm >>

\* -------------------------------------------------- extract_company_info
\* The keys of the company_info dict, all '' at first.
InfoFields ==
  {"name", "overview", "website", "industry", "company_size", "headquarters",
   "founded", "specialties", "verified_date"}

EmptyInfo == [f \in InfoFields |-> ""]

\* Texts of the <dt> elements, and of the <h2>/<h3> headings of the fallback.
Labels == {"Website", "Industry", "Company size", "Headquarters", "Phone"}

\* "word in text" on lower-cased label and heading texts.
In(word, text) ==
  << word, text >> \in
    {<< "website", "website" >>, << "industry", "industry" >>,
     << "company size", "company size" >>, << "size", "company size" >>,
     << "headquarters", "headquarters" >>, << "about", "about us" >>}

\* The text of the <dd> that belongs to a label on a company page.
ValueOf(label) ==
  CASE label = "Website" -> "example.com"
    [] label = "Industry" -> "Software"
    [] label = "Company size" -> "11-50 employees"
    [] label = "Headquarters" -> "Springfield"
    [] label = "Phone" -> "555-0100"

\* A <dt> with the <dd> elements that follow it: none, its value, or its
\* value and a second <dd>.
Items ==
  UNION {{[label |-> l, values |-> v] :
            v \in {<< >>, << ValueOf(l) >>, << ValueOf(l), "23 associated members" >>}}
         : l \in Labels}

\* dl.find_all('dt') and dl.find_all('dd'), in document order.
RECURSIVE Dts(_)
Dts(dl) == IF dl = << >> THEN << >> ELSE << Head(dl).label >> \o Dts(Tail(dl))

RECURSIVE Dds(_)
Dds(dl) == IF dl = << >> THEN << >> ELSE Head(dl).values \o Dds(Tail(dl))

\* The if/elif chain of lines 85-98; "" when no branch is taken.
DlField(label) ==
  LET l == Lower(label) IN
  IF In("website", l) THEN "website"
  ELSE IF In("industry", l) THEN "industry"
  ELSE IF In("company size", l) \/ In("employees", l) THEN "company_size"
  ELSE IF In("headquarters", l) \/ In("location", l) THEN "headquarters"
  ELSE IF In("founded", l) \/ In("year founded", l) THEN "founded"
  ELSE IF In("specialties", l) THEN "specialties"
  ELSE IF In("verified", l) THEN "verified_date"
  ELSE ""

\* The if/elif chain of lines 113-126.
SectionField(heading, info) ==
  LET l == Lower(heading) IN
  IF In("about", l) /\ info["overview"] = "" THEN "overview"
  ELSE IF In("website", l) THEN "website"
  ELSE IF In("industry", l) THEN "industry"
  ELSE IF In("size", l) \/ In("employees", l) THEN "company_size"
  ELSE IF In("headquarters", l) \/ In("location", l) THEN "headquarters"
  ELSE IF In("founded", l) THEN "founded"
  ELSE IF In("specialties", l) THEN "specialties"
  ELSE ""

SetField(info, f, v) == IF f = "" THEN info ELSE [info EXCEPT ![f] = v]

ShorterLen(a, b) == IF Len(a) < Len(b) THEN Len(a) ELSE Len(b)

\* "for dt, dd in zip(dt_elements, dd_elements)": the k-th <dt> with the
\* k-th <dd>, as far as the shorter list goes.
RECURSIVE ZipDetails(_, _, _, _)
ZipDetails(dts, dds, k, info) ==
  IF k > ShorterLen(dts, dds) THEN info
  ELSE ZipDetails(dts, dds, k + 1, SetField(info, DlField(dts[k]), dds[k]))

\* The loop over the labelled sections of the fallback pass.
RECURSIVE FromSections(_, _, _)
FromSections(sections, k, info) ==
  IF k > Len(sections) THEN info
  ELSE FromSections(sections, k + 1,
         SetField(info, SectionField(sections[k].heading, info),
                  sections[k].content))

\* A company about page: the text of its name heading and of its overview
\* element ('' when absent), its definition list, and its labelled
\* org-about-module sections (heading and description text).
AboutPage(name, overview, dl, sections) ==
  [name |-> name, overview |-> overview, dl |-> dl, sections |-> sections]

\* extract_company_info (about_scraper.py lines 16-131).
ExtractCompanyInfo(doc) ==
  LET named == [EmptyInfo EXCEPT !["name"] = doc.name,
                                 !["overview"] = doc.overview]
      listed == ZipDetails(Dts(doc.dl), Dds(doc.dl), 1, named) IN
  IF \A f \in InfoFields : listed[f] = ""
    THEN FromSections(doc.sections, 1, listed)
    ELSE listed

LabelledSections ==
  {<< >>,
   << [heading |-> "About us", content |-> "We make things"],
      [heading |-> "Website", content |-> "fallback.example"] >>}

AboutPages ==
  {AboutPage(n, o, dl, sec) :
     n \in {"", "Globex"}, o \in {"", "We make things"},
     dl \in SeqsUpTo(Items, MaxItems), sec \in LabelledSections}

CallExtractCompanyInfo ==
  /\ call.fn = "extract_company_info"
  /\ ~call.done
  /\ call' = [call EXCEPT !.done = TRUE,
                          !.output = ExtractCompanyInfo(call.input)]
  /\ UNCHANGED << ctlVars, asm >>

\* ---------------------------------------------------- process_about_file
\* File names as sequences of their parts; "_" and "-" are parts of their own.
AboutSuffix == << "_", "about", ".txt" >>

Slugs ==
  {<< "acme", "-", "corp" >>, << "globex" >>, << "unknown", "_", "company" >>}

SourceNames == {slug \o AboutSuffix : slug \in Slugs} \cup {<< "about", ".txt" >>}

\* The parts of a name joined into the string they spell.
RECURSIVE Join(_)
Join(parts) == IF parts = << >> THEN "" ELSE Head(parts) \o Join(Tail(parts))

\* source_name.split('_')[0]: the parts before the first "_".
RECURSIVE SplitFirst(_)
SplitFirst(parts) ==
  IF parts = << >> \/ Head(parts) = "_" THEN << >>
  ELSE << Head(parts) >> \o SplitFirst(Tail(parts))

\* Mutant: the hyphens are kept.
ReplaceHyphen_Kept(part) == part

\* .replace('-', ' ') on one part.
ReplaceHyphen(part) == IF part = "-" THEN " " ELSE part

\* .title() on one part: a word gets its first letter in upper case.
Title(part) ==
  CASE part = "acme" -> "Acme"
    [] part = "corp" -> "Corp"
    [] part = "globex" -> "Globex"
    [] part = "unknown" -> "Unknown"
    [] part = "company" -> "Company"
    [] part = "about" -> "About"
    [] OTHER -> part

\* source_name.split('_')[0].replace('-', ' ').title()
NameFromSource(parts) ==
  LET first == SplitFirst(parts) IN
  Join([k \in 1..Len(first) |-> Title(ReplaceHyphen(first[k]))])

\* The argument of process_about_file: markup given as a string (possibly
\* the empty string), the path of an existing file (readable or not, its
\* text possibly empty), or a value that is neither string nor path.
AboutSource(kind, parts, readable, empty, doc) ==
  [kind |-> kind, parts |-> parts, readable |-> readable, empty |-> empty,
   doc |-> doc]

\* Mutant: the source is not added to the record.
WithSource_Dropped(info, source) == info

\* company_info['source'] = source_name
WithSource(info, source) == info @@ ("source" :> source)

\* process_about_file (lines 134-181).
ProcessAbout(src) ==
  IF src.kind = "nonstring" THEN None
  ELSE IF src.kind = "file" /\ ~src.readable THEN None
  ELSE IF src.empty THEN None
  ELSE
    LET source_name == IF src.kind = "file" THEN Join(src.parts)
                                           ELSE "in_memory_content"
        info == ExtractCompanyInfo(src.doc) IN
    IF info["name"] = "" /\ info["overview"] = "" /\ src.kind = "file"
         /\ "_" \in Range(src.parts) /\ NameFromSource(src.parts) # ""
      THEN WithSource([info EXCEPT !["name"] = NameFromSource(src.parts)], source_name)
      ELSE WithSource(info, source_name)

\* Pages with no or one entry in their definition list.
SmallPages ==
  {AboutPage(n, o, dl, sec) :
     n \in {"", "Globex"}, o \in {"", "We make things"},
     dl \in SeqsUpTo({[label |-> "Website", values |-> << "example.com" >>]}, 1),
     sec \in LabelledSections}

BlankPage == AboutPage("", "", << >>, << >>)

AboutSources ==
  {AboutSource("content", << >>, TRUE, FALSE, d) : d \in SmallPages}
    \cup {AboutSource("file", n, TRUE, FALSE, d) : n \in SourceNames, d \in SmallPages}
    \cup {AboutSource("file", n, r, e, BlankPage) :
            n \in SourceNames, r \in BOOLEAN, e \in BOOLEAN}
    \cup {AboutSource("content", << >>, TRUE, TRUE, BlankPage),
          AboutSource("nonstring", << >>, TRUE, FALSE, BlankPage)}

CallProcessAboutFile ==
  /\ call.fn = "process_about_file"
  /\ ~call.done
  /\ call' = [call EXCEPT !.done = TRUE, !.output = ProcessAbout(call.input)]
  /\ UNCHANGED << ctlVars, asm >>

\* ------------------------------------------------------- the command line
\* One run of the program: how it was started, what the controller's
\* scrape_profile did (raised, returned (False, ...) or (True, mapping), the
\* mapping with all or only some of the section documents), whether the
\* assembler could be built on the mapping, whether open() and json.dump()
\* succeed, and the output file before the run.
Runs ==
  [entry : {"module", "console_script"},
   scrape : {"raised", "refused", "captured"},
   sections : {"all", "some"},
   builder : {"built", "raised"},
   write : {"written", "open fails", "dump fails"},
   file : {"absent", "old"}]

\* scrape_linkedin_profile (main.py lines 20-80): the record, or None.
ScrapeLinkedinProfile(run) ==
  IF run.scrape = "captured" /\ run.builder = "built"
    THEN [type |-> "dict", sections |-> run.sections]
    ELSE None

\* "with open(output_file, 'w') as f: json.dump(profile_data, f, ...)".
WriteJson(run, data) ==
  CASE run.write = "written" -> [raised |-> FALSE, file |-> data]
    [] run.write = "open fails" -> [raised |-> TRUE, file |-> run.file]
    [] run.write = "dump fails" -> [raised |-> TRUE, file |-> "truncated"]

\* Mutant: the output file is opened for writing before the scrape.
SaveProfileToJson_OpensFirst(run) ==
  LET data == ScrapeLinkedinProfile(run) IN
  IF data = None THEN [returned |-> FALSE, file |-> "truncated"]
  ELSE LET w == WriteJson(run, data) IN [returned |-> ~w.raised, file |-> w.file]

\* save_profile_to_json (main.py lines 82-126).
SaveProfileToJson(run) ==
  LET data == ScrapeLinkedinProfile(run) IN
  IF data = None THEN [returned |-> FALSE, file |-> run.file]
  ELSE LET w == WriteJson(run, data) IN [returned |-> ~w.raised, file |-> w.file]

\* The process: "asyncio.run(main())" under __main__ drops main's result and
\* ends with status 0; the console script of setup.py passes the coroutine
\* object that main() returns to sys.exit, which ends with status 1 without
\* running it.
Process(run) ==
  IF run.entry = "module"
    THEN LET saved == SaveProfileToJson(run) IN
         [ran |-> TRUE, returned |-> saved.returned, file |-> saved.file,
          exit |-> 0]
    ELSE [ran |-> FALSE, returned |-> FALSE, file |-> run.file, exit |-> 1]

CallMain ==
  /\ call.fn = "main"
  /\ ~call.done
  /\ call' = [call EXCEPT !.done = TRUE, !.output = Process(call.input)]
  /\ UNCHANGED << ctlVars, asm >>

\* ------------------------------------------------------------- the calls
InitFn ==
  /\ InitController
  /\ ~debug_mode
  /\ \/ \E x \in HtmlSources : call = Call("extract_current_companies", x)
     \/ \E x \in ExtractorInputs : call = Call("extractor", x)
     \/ \E x \in AboutPages : call = Call("extract_company_info", x)
     \/ \E x \in AboutSources : call = Call("process_about_file", x)
     \/ \E x \in Runs : call = Call("main", x)

NextFn ==
  \/ CallExtractCurrentCompanies
  \/ CallExtractor
  \/ CallExtractCompanyInfo
  \/ CallProcessAboutFile
  \/ CallMain

SpecFn == InitFn /\ [][NextFn]_vars

Called(fn) == call.fn = fn /\ call.done

\* Captions that contain 'present' in some letter case.
PresentCaptions == {"Jan 2020 - Present", "2019 - present"}

\* hrefs that contain '/company/', relative and absolute.
RelativeCompanyHrefs == {"/company/acme/", "/company/globex/"}
AbsoluteCompanyHrefs == {"https://www.linkedin.com/company/acme/"}

\* The first link of e that points into /company/, as a set of none or one.
FirstCompanyHref(e) ==
  {e.links[i] : i \in {j \in 1..Len(e.links) :
      /\ e.links[j] \in RelativeCompanyHrefs \cup AbsoluteCompanyHrefs
      /\ \A m \in 1..(j - 1) :
           e.links[m] \notin RelativeCompanyHrefs \cup AbsoluteCompanyHrefs}}

Absolute(href) ==
  IF href \in AbsoluteCompanyHrefs THEN href
  ELSE "https://www.linkedin.com" \o href

Parsed == call.input.kind \in {"content", "file"} /\ call.input.readable /\ call.input.parses

CurrentEntries ==
  {i \in 1..Len(call.input.entries) :
     /\ call.input.entries[i].caption # << >>
     /\ call.input.entries[i].caption[1] \in PresentCaptions}

C17_EmptySetOnError ==
  Called("extract_current_companies") =>
    /\ call.output.type = "set"
    /\ ~Parsed => call.output = Set({})

\* The variants of the called extractor's chain that the document holds.
VariantsFound ==
  {v \in 1..Len(Anchors(call.input.section)) :
     Anchors(call.input.section)[v] \in call.input.doc.mains}

\* C18: on a non-empty document each of the six section extractors returns a
\* list and raises nothing: the empty list when the document holds none of the
\* section's anchor variants, else exactly one text block, that of the first
\* variant in chain order that the document holds.
C18_AtMostOneBlock ==
  (Called("extractor") /\ ~call.input.doc.empty) =>
    /\ ~call.output.raised
    /\ call.output.value.type = "list"
    /\ VariantsFound = {} => call.output.value.items = << >>
    /\ VariantsFound # {} =>
         /\ Len(call.output.value.items) = 1
         /\ \E v \in VariantsFound :
              /\ \A w \in VariantsFound : v <= w
              /\ call.output.value.items[1].label = {Anchors(call.input.section)[v]}
              /\ call.output.value.items[1].from = call.input.doc.tag

\* The licences extractor on a document holding its second and third
\* variants and an unrelated <main>.
C18_Witness ==
  /\ Called("extractor")
  /\ call.input.section = "licenses_and_certifications"
  /\ call.input.doc.mains = {"Licenses & Certifications", "Licenses", "Interests"}
  /\ call.output.value = List(<< MainText(call.input.doc, "Licenses & Certifications") >>)

\* C19: on an empty document (html_content '' or None and no file) an
\* extractor gives an empty result: neither its constructor nor its extract
\* method raises.
C19_EmptyDocumentEmptyResult ==
  (Called("extractor") /\ call.input.doc.empty) =>
    /\ ~call.output.raised
    /\ call.output.value = List(<< >>)

\* The items of the called page's definition list whose label is the only
\* one of the list that names its field, and that have a value.
SoleLabelled ==
  {i \in 1..Len(call.input.dl) :
     /\ call.input.dl[i].values # << >>
     /\ call.input.dl[i].label \in {"Website", "Industry", "Company size", "Headquarters"}
     /\ \A j \in 1..Len(call.input.dl) :
          call.input.dl[j].label = call.input.dl[i].label => j = i}

FieldOf(label) ==
  CASE label = "Website" -> "website"
    [] label = "Industry" -> "industry"
    [] label = "Company size" -> "company_size"
    [] label = "Headquarters" -> "headquarters"

\* C20: a label of the definition list that contains 'Website' and has the
\* value v gives website == v, whatever entries come before it in the list
\* (a label followed by more than one value element included); likewise for
\* each other recognised label and its own value.
C20_LabelGetsOwnValue ==
  Called("extract_company_info") =>
    \A i \in SoleLabelled :
      call.output[FieldOf(call.input.dl[i].label)] = call.input.dl[i].values[1]

\* The claim for lists in which every label has exactly one value element.
C20_PairedListsOnly ==
  (Called("extract_company_info")
     /\ \A j \in 1..Len(call.input.dl) : Len(call.input.dl[j].values) = 1) =>
    \A i \in SoleLabelled :
      call.output[FieldOf(call.input.dl[i].label)] = call.input.dl[i].values[1]

\* The called page has a labelled block headed 'About ...'.
AboutBlocks ==
  {k \in 1..Len(call.input.sections) : call.input.sections[k].heading = "About us"}

\* C21: on a page without a definition list whose overview selectors matched
\* nothing and that has a labelled block headed 'About', overview is the
\* text of that block's description, whether or not the name was extracted.
C21_FallbackOverview ==
  (Called("extract_company_info") /\ call.input.dl = << >>
     /\ call.input.overview = "" /\ AboutBlocks # {}) =>
    \E k \in AboutBlocks : call.output["overview"] = call.input.sections[k].content

\* The same for pages whose name was not extracted either.
C21_FallbackWhenNameless ==
  (Called("extract_company_info") /\ call.input.dl = << >>
     /\ call.input.overview = "" /\ call.input.name = "" /\ AboutBlocks # {}) =>
    \E k \in AboutBlocks : call.output["overview"] = call.input.sections[k].content

\* The slug of the called file name, when it has the form <slug>_about.txt.
SlugOfCall ==
  {slug \in Slugs : call.input.parts = slug \o AboutSuffix}

\* The slug with its hyphens as spaces and its words title-cased.
TitleOfSlug(slug) ==
  Join([k \in 1..Len(slug) |->
          IF slug[k] = "-" THEN " "
          ELSE CASE slug[k] = "acme" -> "Acme" [] slug[k] = "corp" -> "Corp"
                 [] slug[k] = "globex" -> "Globex" [] slug[k] = "unknown" -> "Unknown"
                 [] slug[k] = "company" -> "Company" [] OTHER -> slug[k]])

Answered == Called("process_about_file") /\ call.output # None

Extracted == ExtractCompanyInfo(call.input.doc)

Nameless == Extracted["name"] = "" /\ Extracted["overview"] = ""

\* C22 as stated: when neither name nor overview was extracted and the source is a
\* file <slug>_about.txt, the name is the slug with hyphens as spaces and
\* every word title-cased, for every slug; in-memory content gets no
\* synthesized name, and extracted names and overviews are left as they are.
C22_NameFromSlug ==
  Answered =>
    /\ (Nameless /\ call.input.kind = "file") =>
         \A slug \in SlugOfCall : call.output["name"] = TitleOfSlug(slug)
    /\ (Nameless /\ call.input.kind = "content") => call.output["name"] = ""
    /\ ~Nameless => /\ call.output["name"] = Extracted["name"]
                    /\ call.output["overview"] = Extracted["overview"]

\* C22 as amended: the same for every slug that holds no underscore; of a
\* slug with an underscore only the part before it is used.
C22_NameFromPlainSlug ==
  Answered =>
    /\ (Nameless /\ call.input.kind = "file") =>
         \A slug \in SlugOfCall :
           "_" \notin Range(slug) => call.output["name"] = TitleOfSlug(slug)
    /\ (Nameless /\ call.input.kind = "content") => call.output["name"] = ""
    /\ ~Nameless => /\ call.output["name"] = Extracted["name"]
                    /\ call.output["overview"] = Extracted["overview"]

\* The file acme-corp_about.txt of a page that gives neither name nor overview.
C22_Witness ==
  /\ Answered /\ Nameless
  /\ call.input.kind = "file"
  /\ call.input.parts = << "acme", "-", "corp" >> \o AboutSuffix
  /\ call.output["name"] = "Acme Corp"
  /\ call.output["source"] = "acme-corp_about.txt"

\* The called input is no string, or names a file that cannot be read.
NotStringOrUnreadable ==
  \/ call.input.kind = "nonstring"
  \/ call.input.kind = "file" /\ ~call.input.readable

\* The record holds the nine fields and source.
FullRecord ==
  /\ DOMAIN call.output = InfoFields \cup {"source"}
  /\ \A f \in InfoFields \ {"name"} : call.output[f] = Extracted[f]

\* C23 as stated: process_about_file returns null only when its input is no
\* string or names nothing readable; for every string input it returns a
\* record of the nine fields and source, unextracted fields being ''.
C23_RecordForEveryString ==
  Called("process_about_file") =>
    IF NotStringOrUnreadable THEN call.output = None
    ELSE call.output # None /\ FullRecord

\* C23 as amended: it returns null exactly when its input is no string, names
\* a file that cannot be read, or is (or names a file holding) the empty
\* string; for every other input it returns the record of the nine fields
\* and source.
C23_NullOnlyWithoutText ==
  Called("process_about_file") =>
    IF NotStringOrUnreadable \/ call.input.empty THEN call.output = None
    ELSE call.output # None /\ FullRecord

\* Markup from which nothing is extracted, given as a string.
C23_Witness ==
  /\ Called("process_about_file")
  /\ call.input.kind = "content" /\ ~call.input.empty
  /\ call.input.doc = BlankPage
  /\ call.output = WithSource(EmptyInfo, "in_memory_content")

\* The run's scrape succeeded: the controller returned its mapping and the
\* assembler was built on it.
ScrapeSucceeded == call.input.scrape = "captured" /\ call.input.builder = "built"

RecordWritten ==
  call.output.file = [type |-> "dict", sections |-> call.input.sections]

\* C24: the process ends with status 0 only when the scrape succeeded and
\* the profile JSON was written; a failed run ends with another status.
C24_ExitCodeTellsFailure ==
  Called("main") =>
    /\ call.output.exit = 0 => (ScrapeSucceeded /\ RecordWritten)
    /\ ~ScrapeSucceeded => call.output.exit # 0

\* C25: in a failed run save_profile_to_json leaves the output file as it
\* was and returns False; it returns True only when the record has been
\* written to the file; a degraded run, in which only some sections were
\* captured, writes its record and returns True when the file can be written.
C25_FileOnlyOnSuccess ==
  (Called("main") /\ call.output.ran) =>
    /\ ~ScrapeSucceeded =>
         (call.output.file = call.input.file /\ ~call.output.returned)
    /\ call.output.returned => RecordWritten
    /\ (ScrapeSucceeded /\ call.input.sections = "some"
          /\ call.input.write = "written") =>
         (RecordWritten /\ call.output.returned)

\* A failed run over an existing output file, and nothing was written.
C25_Witness ==
  /\ Called("main") /\ call.output.ran
  /\ call.input.scrape = "raised"
  /\ call.input.file = "old"
  /\ call.output.file = "old"
  /\ ~call.output.returned

\* The files that a step created or changed, directories aside.
Written ==
  {f \in DOMAIN disk' : /\ disk'[f] # DirMark
                        /\ (f \in DOMAIN disk => disk'[f] # disk[f])}

\* C26: with debug_mode false the controller never creates or writes a file
\* or directory at any step; with debug_mode true every document a step
\* writes to disk is the document that the mapping holds after that step
\* under the key captured in it.
C26_DiskOnlyInDebugMode ==
  /\ [](~debug_mode => disk = EmptyMap)
  /\ [][\A f \in Written :
          \E k \in DOMAIN html_content' : html_content'[k] = disk'[f]]_vars

\* A debug run that wrote the profile, an expanded section and a company's
\* about page.
C26_Witness ==
  /\ debug_mode
  /\ Has(disk, "html_pages/profile_html.txt")
  /\ Has(disk, "html_pages/experiences_expanded_html.txt")
  /\ disk["html_pages/experiences_expanded_html.txt"]
       = html_content["experiences_expanded_html"]
  /\ Has(disk, "html_pages/company_about_pages/1_about.txt")
  /\ Has(html_content, AboutKey(0))
  /\ result = "returned"

\* The keys of company documents in the mapping.
CompanyKeysStored ==
  {k \in DOMAIN html_content : \E i \in 0..(MaxCompanies - 1) : k \in CompanyKeys(i)}

\* C27: a run that scrapes companies gives the link extractor exactly one
\* document, the expanded experiences document when the mapping holds it and
\* the base profile document otherwise; with no candidate no company page is
\* visited and no company_* key is added.
C27_OneSourceDocument ==
  /\ trace.source # "" =>
       trace.source = IF "experiences_expanded_html" \in DOMAIN html_content
                        THEN "experiences_expanded_html" ELSE "profile_html"
  /\ company_urls = << >> =>
       /\ \A u \in Urls : trace.visits[u] = 0
       /\ CompanyKeysStored = {}

\* The experiences document was captured and read, and gave no candidate.
C27_Witness ==
  /\ result = "returned"
  /\ args.scrape_companies
  /\ trace.source = "experiences_expanded_html"
  /\ company_urls = << >>
  /\ CompanyKeysStored = {}

\* ============================================ a second scrape_profile call
\* What an earlier scrape_profile call of the same instance left under a key.
Earlier(key) == Doc("earlier", key)

\* Mappings an earlier call leaves behind: the profile with the expanded
\* experiences, alone or with the three documents of its first company.
EarlierMappings ==
  LET base == Put(Put(EmptyMap, "profile_html", Earlier("profile_html")),
                  ExpandedKey("experiences"), Earlier(ExpandedKey("experiences")))
      more == Put(Put(Put(base, MainKey(0), Earlier(MainKey(0))),
                      AboutKey(0), Earlier(AboutKey(0))),
                  BestKey(0), Earlier(BestKey(0))) IN
  {base, more}

\* The instance after an earlier call, about to be called again: __init__ is
\* not run again and scrape_profile assigns self.html_content nowhere.
InitAgain ==
  /\ asm = NoAssembler
  /\ call = NoCall
  /\ debug_mode = FALSE
  /\ html_content \in EarlierMappings
  /\ disk = EmptyMap
  /\ pc = "idle"
  /\ args = [email |-> FALSE, password |-> FALSE, scrape_companies |-> FALSE]
  /\ browser = "none"
  /\ context = "none"
  /\ page = "none"
  /\ secIdx = 0
  /\ selIdx = 0
  /\ company_urls = << >>
  /\ coIdx = 0
  /\ result = "none"
  /\ trace = InitTrace

SpecAgain == InitAgain /\ [][Next]_vars

\* C28: the mapping a scrape_profile call returns holds only documents
\* captured during that call: no document of an earlier call of the same
\* instance is in it unless the call captured that key again.
C28_OnlyThisCallsDocuments ==
  result = "returned" =>
    \A k \in DOMAIN html_content : html_content[k] # Earlier(k)

\* C29: within one call the key of a section is stored at most once: once an
\* expanded document has been stored the locator loop of that section tries
\* no further locator, whatever browser or file operation fails afterwards.
C29_OneCapturePerSection ==
  /\ trace.secWrites <= 1
  /\ ~(pc = "selector" /\ trace.secWrites >= 1)

\* C30: every section list field of an assembled record holds at most one
\* text block, for any base profile document, one with several cards headed
\* for the same section included.
C30_AtMostOneBlockPerField ==
  Assembled => \A f \in Fields : Len(asm.profile[f].items) <= 1

====
